---- MODULE Spec2Model ----
(***************************************************************************)
(* Tutorial code validator: crates/claude-sdk-rs/scripts/                  *)
(*   check_tutorial_syntax.py  (mode "syntax": stub lib.rs, 15 s timeout)  *)
(*   test_tutorial_code.py     (mode "full": path dependency, 30 s)        *)
(*                                                                         *)
(* Text is a sequence of atoms.  An atom is a literal piece of text that   *)
(* the scripts' string operations never split: "in", str.replace and the   *)
(* regular expression are computed on atom sequences exactly as Python     *)
(* computes them on the character strings the atoms spell out.  Only SP    *)
(* starts with a space and no atom is a piece of another, so a marker is   *)
(* found in the atoms exactly when it is found in the characters.          *)
(***************************************************************************)
EXTENDS Integers, Sequences, FiniteSets, TLC

VARIABLES
    mode,                  \* which script runs: "syntax" or "full"
    tutorials_dir_exists,  \* tutorials_dir.exists()
    files,                 \* tutorials_dir/*.md : file name -> content
    tutorial_files,        \* main: sorted(tutorials_dir.glob("*.md"))
    file_idx,              \* main: position of the for loop over tutorial_files
    code_blocks,           \* check_tutorial_file: extract_rust_code_blocks(file_path)
    block_pos,             \* check_tutorial_file: position of the for loop over code_blocks
    all_passed,            \* check_tutorial_file: all_passed
    passed,                \* main: value returned by check_tutorial_file
    all_tutorials_passed,  \* main: all_tutorials_passed
    temp_dir,              \* name of the TemporaryDirectory of the with block, or NoDir
    fs,                    \* temp directory name -> Absent or its content
    proc,                  \* the cargo child process of subprocess.run
    ret,                   \* (success, message) returned by check_syntax / test_code_block
    trace,                 \* what happened so far: printed lines and checker events
    exit_code,             \* process exit status, or NoExit while running
    pc,                    \* control position of the run
    arg,                   \* unit specifications: the argument of the function under test
    out,                   \* unit specifications: its result
    upc                    \* unit specifications: "ready" or "returned"

vars == <<mode, tutorials_dir_exists, files, tutorial_files, file_idx, code_blocks,
          block_pos, all_passed, passed, all_tutorials_passed, temp_dir, fs, proc,
          ret, trace, exit_code, pc, arg, out, upc>>

runVars == <<mode, tutorials_dir_exists, files, tutorial_files, file_idx, code_blocks,
             block_pos, all_passed, passed, all_tutorials_passed, temp_dir, fs, proc,
             ret, trace, exit_code, pc>>

unitVars == <<arg, out, upc>>

-----------------------------------------------------------------------------
(* Bounds *)

MaxFiles == 2

MaxDirNames == 2

MaxDocLen == 6

MaxCodeLen == 4

-----------------------------------------------------------------------------
(* Atoms of text *)

\* the three-backtick fence marker
FENCE == "<fence>"

RUST == "rust"

NL == "\n"

USE_SDK == "use claude_sdk_rs::"

USE_CRATE == "use crate::"

BRACE == "{"

TOKIO_MAIN == "#[tokio::main]"

ASYNC == "async "

FN == "fn"

SP == " "

MAIN_PARENS == "main()"

RESULT_SIG == "-> Result<(), Box<dyn std::error::Error>> {"

IMPL == "impl "

STRUCT == "struct "

OTHER_TEXT == "Client};"

HELPER_BODY == "helper() {}"

PRINTLN_CODE == "println!(\"Code compiles successfully!\");"

PRINTLN_FUNCTIONS == "println!(\"Functions compile successfully!\");"

OK_RESULT == "Ok(())"

CLOSE_BRACE == "}"

Modes == {"syntax", "full"}

-----------------------------------------------------------------------------
(* Python string primitives on atom sequences *)

\* sub in s
Contains(s, sub) ==
    \E i \in 0..(Len(s) - Len(sub)) : SubSeq(s, i + 1, i + Len(sub)) = sub

\* s.count(sub) for non-empty sub: non-overlapping occurrences, left to right
RECURSIVE Count(_, _)
Count(s, sub) ==
    IF Len(s) < Len(sub) THEN 0
    ELSE IF SubSeq(s, 1, Len(sub)) = sub
         THEN 1 + Count(SubSeq(s, Len(sub) + 1, Len(s)), sub)
         ELSE Count(Tail(s), sub)

\* s.replace(old, new): every non-overlapping occurrence, left to right
RECURSIVE Replace(_, _, _)
Replace(s, old, new) ==
    IF Len(s) < Len(old) THEN s
    ELSE IF SubSeq(s, 1, Len(old)) = old
         THEN new \o Replace(SubSeq(s, Len(old) + 1, Len(s)), old, new)
         ELSE <<Head(s)>> \o Replace(Tail(s), old, new)

\* sorted(S) for a set of file names; names are ordered as their paths are
RECURSIVE Sorted(_)
Sorted(S) ==
    IF S = {} THEN <<>>
    ELSE LET m == CHOOSE x \in S : \A y \in S : x <= y
         IN  <<m>> \o Sorted(S \ {m})

-----------------------------------------------------------------------------
(* extract_rust_code_blocks *)

\* the opener (fence, rust, newline) of the pattern matches at position i
OpenerAt(content, i) ==
    /\ i + 2 <= Len(content)
    /\ content[i] = FENCE
    /\ content[i + 1] = RUST
    /\ content[i + 2] = NL

\* the closer (newline, fence) of the pattern matches at position j
CloserAt(content, j) ==
    /\ j + 1 <= Len(content)
    /\ content[j] = NL
    /\ content[j + 1] = FENCE

\* a match of the whole pattern can start at i: the lazy group needs some closer
\* at or after the end of the opener
MatchAt(content, i) ==
    /\ OpenerAt(content, i)
    /\ \E j \in (i + 3)..Len(content) : CloserAt(content, j)

\* where the lazy group (.*?) of the match starting at i stops: the first closer
FirstCloser(content, i) ==
    CHOOSE j \in (i + 3)..Len(content) :
        /\ CloserAt(content, j)
        /\ \A k \in (i + 3)..(j - 1) : ~CloserAt(content, k)

\* re.findall(pattern, content, re.DOTALL) scanning from position from:
\* leftmost match first, the scan resumes after the closer of each match
RECURSIVE FindAllFrom(_, _)
FindAllFrom(content, from) ==
    IF \E i \in from..Len(content) : MatchAt(content, i)
    THEN LET i == CHOOSE i \in from..Len(content) :
                      /\ MatchAt(content, i)
                      /\ \A k \in from..(i - 1) : ~MatchAt(content, k)
             j == FirstCloser(content, i)
         IN  <<SubSeq(content, i + 3, j - 1)>> \o FindAllFrom(content, j + 2)
    ELSE <<>>

FindAll(content) == FindAllFrom(content, 1)

FRAGMENT_ASYNC_MAIN == <<ASYNC, FN, SP, MAIN_PARENS, SP, RESULT_SIG>>

FRAGMENT_USE == <<USE_SDK, BRACE>>

FRAGMENT_TOKIO == <<TOKIO_MAIN>>

\* variant: a function definition counts as a relevance signal
IsRelevant_FnSignal(match) ==
    \/ Contains(match, FRAGMENT_ASYNC_MAIN)
    \/ Contains(match, FRAGMENT_USE)
    \/ Contains(match, FRAGMENT_TOKIO)
    \/ Contains(match, <<FN, SP>>)

\* any(fragment in match for fragment in [...])
IsRelevant(match) ==
    \/ Contains(match, FRAGMENT_ASYNC_MAIN)
    \/ Contains(match, FRAGMENT_USE)
    \/ Contains(match, FRAGMENT_TOKIO)

\* variant: the relevance filter is left out, every match is kept
KeepRelevant_All(matches, i) ==
    [k \in 1..Len(matches) |-> <<k - 1, matches[k]>>]

\* code_blocks: the pairs (i, match), i the 0-based index among all matches
RECURSIVE KeepRelevant(_, _)
KeepRelevant(matches, i) ==
    IF i >= Len(matches) THEN <<>>
    ELSE (IF IsRelevant(matches[i + 1]) THEN << <<i, matches[i + 1]>> >> ELSE <<>>)
         \o KeepRelevant(matches, i + 1)

extract_rust_code_blocks(content) == KeepRelevant(FindAll(content), 0)

-----------------------------------------------------------------------------
(* make_code_testable *)

\* code.replace("use claude_sdk_rs::", "use crate::"): check_tutorial_syntax.py only
Normalize(m, code) ==
    IF m = "syntax" THEN Replace(code, <<USE_SDK>>, <<USE_CRATE>>) ELSE code

\* '#[tokio::main]' in code or 'fn main()' in code
IsCompleteProgram(code) ==
    \/ Contains(code, <<TOKIO_MAIN>>)
    \/ Contains(code, <<FN, SP, MAIN_PARENS>>)

\* variant: the syntax-only script does not look for 'impl '
HasDefinitions_NoImpl(m, code) ==
    \/ Contains(code, <<ASYNC, FN>>)
    \/ Contains(code, <<FN, SP>>)
    \/ (m = "full" /\ Contains(code, <<IMPL>>))
    \/ (m = "syntax" /\ Contains(code, <<STRUCT>>))

\* 'async fn' in code or 'fn ' in code or 'impl ' in code [or 'struct ' in code]
HasDefinitions(m, code) ==
    \/ Contains(code, <<ASYNC, FN>>)
    \/ Contains(code, <<FN, SP>>)
    \/ Contains(code, <<IMPL>>)
    \/ (m = "syntax" /\ Contains(code, <<STRUCT>>))

\* variant: the template lacks the entry point
Wrapped_NoEntry(code, println) ==
    <<NL>> \o code \o <<NL, NL, SP, SP, SP, SP, println, NL>>

\* the f-string template around {code}; println is the one line that differs
Wrapped(code, println) ==
    <<NL>> \o code \o
    <<NL, NL, TOKIO_MAIN, NL, ASYNC, FN, SP, MAIN_PARENS, SP, RESULT_SIG, NL,
      SP, SP, SP, SP, println, NL, SP, SP, SP, SP, OK_RESULT, NL, CLOSE_BRACE, NL>>

make_code_testable(m, code) ==
    LET c == Normalize(m, code)
    IN  IF IsCompleteProgram(c) THEN c
        ELSE IF ~HasDefinitions(m, c) THEN Wrapped(c, PRINTLN_CODE)
        ELSE Wrapped(c, PRINTLN_FUNCTIONS)

-----------------------------------------------------------------------------
(* The documents and the environment of a run *)

\* a document whose only rust block is fn helper() {}
HelperDoc == <<FENCE, RUST, NL, FN, SP, HELPER_BODY, NL, FENCE, NL>>

\* a document with one declaration-only block importing from the product's namespace
ImportDoc == <<FENCE, RUST, NL, USE_SDK, BRACE, OTHER_TEXT, NL, FENCE, NL>>

\* a complete program, a fragment the filter skips, then imports followed by a struct
ThreeBlockDoc ==
    <<FENCE, RUST, NL, TOKIO_MAIN, NL, ASYNC, FN, SP, MAIN_PARENS, SP, RESULT_SIG, NL,
      CLOSE_BRACE, NL, FENCE, NL,
      OTHER_TEXT, NL,
      FENCE, RUST, NL, OTHER_TEXT, NL, FENCE, NL,
      FENCE, RUST, NL, USE_SDK, BRACE, OTHER_TEXT, NL, STRUCT, OTHER_TEXT, NL, FENCE, NL>>

\* an opening fence with no closing fence before the end of the document
UnterminatedDoc == <<OTHER_TEXT, NL, FENCE, RUST, NL, TOKIO_MAIN, NL, OTHER_TEXT>>

SampleDocs == {HelperDoc, ImportDoc, ThreeBlockDoc, UnterminatedDoc}

FileNames == 1..MaxFiles

DirNames == 1..MaxDirNames

\* how long cargo check runs before it exits by itself, in seconds
Durations == {1, 20, 40}

ExitCodes == {0, 101}

Stderrs == {<<"error[E0425]: cannot find value">>, <<"error: expected one of">>}

StartErrors == {<<"[Errno 2] No such file or directory: 'cargo'">>}

SyntaxTimeout == 15

CompileTimeout == 30

Timeout(m) == IF m = "syntax" THEN SyntaxTimeout ELSE CompileTimeout

TimeoutMessage(m) ==
    IF m = "syntax" THEN <<"Syntax check timeout">> ELSE <<"Compilation timeout">>

Absent == [exists |-> FALSE, paths |-> {}, main_rs |-> <<>>]

NoProc == [state |-> "none", rc |-> 0, stderr |-> <<>>, error |-> <<>>, dur |-> 0]

Event(kind, file, block, val, n) ==
    [kind |-> kind, file |-> file, block |-> block, val |-> val, n |-> n]

-----------------------------------------------------------------------------
(* check_syntax / test_code_block *)

\* the files written into the sandbox before the checker runs
SandboxContent(m, code) ==
    [exists |-> TRUE,
     paths |-> {"src", "Cargo.toml", "src/main.rs"}
               \cup (IF m = "syntax" THEN {"src/lib.rs"} ELSE {}),
     main_rs |-> make_code_testable(m, code)]

\* variant: the return code is not looked at
CheckResult_NoReturncode(m, p) ==
    IF p.state = "exited"
    THEN [success |-> TRUE, message |-> <<"OK">>]
    ELSE IF p.state = "killed"
    THEN [success |-> FALSE, message |-> TimeoutMessage(m)]
    ELSE [success |-> FALSE, message |-> <<"Error: ">> \o p.error]

\* the try/except around subprocess.run: p is how the invocation ended
CheckResult(m, p) ==
    IF p.state = "exited"
    THEN IF p.rc = 0
         THEN [success |-> TRUE, message |-> <<"OK">>]
         ELSE [success |-> FALSE, message |-> p.stderr]
    ELSE IF p.state = "killed"
    THEN [success |-> FALSE, message |-> TimeoutMessage(m)]
    ELSE [success |-> FALSE, message |-> <<"Error: ">> \o p.error]

\* variant: the flag is overwritten by the latest result
NextAllPassed_Overwrite(ap, success) == success

\* all_passed after one block: set to False on a failure, never back to True
NextAllPassed(ap, success) == IF success THEN ap ELSE FALSE

\* sys.exit(0) or sys.exit(1) after the summary
ExitStatus(atp) == IF atp THEN 0 ELSE 1

-----------------------------------------------------------------------------
(* The run: main -> check_tutorial_file -> check_syntax *)

CurrentFile == tutorial_files[file_idx]

CurrentIndex == code_blocks[block_pos][1]

CurrentCode == code_blocks[block_pos][2]

Init ==
    /\ mode \in Modes
    /\ tutorials_dir_exists \in BOOLEAN
    /\ files \in (IF tutorials_dir_exists
                  THEN UNION {[S -> SampleDocs] : S \in SUBSET FileNames}
                  ELSE {<<>>})
    /\ tutorial_files = <<>>
    /\ file_idx = 0
    /\ code_blocks = <<>>
    /\ block_pos = 0
    /\ all_passed = TRUE
    /\ passed = TRUE
    /\ all_tutorials_passed = TRUE
    /\ temp_dir = 0
    /\ fs = [d \in DirNames |-> Absent]
    /\ proc = NoProc
    /\ ret = [success |-> FALSE, message |-> <<>>]
    /\ trace = <<>>
    /\ exit_code = -1
    /\ pc = "main"
    /\ arg = <<>>
    /\ out = <<>>
    /\ upc = "idle"

\* main up to the loop over the tutorial files
Main ==
    /\ pc = "main"
    /\ IF ~tutorials_dir_exists
       THEN /\ trace' = Append(trace, Event("no_tutorials_dir", 0, 0, "", 0))
            /\ exit_code' = 1
            /\ pc' = "done"
            /\ UNCHANGED <<tutorial_files, file_idx, all_tutorials_passed>>
       ELSE /\ tutorial_files' = Sorted(DOMAIN files)
            /\ IF tutorial_files' = <<>>
               THEN /\ trace' = trace \o <<Event("banner", 0, 0, "", 0),
                                           Event("no_tutorial_files", 0, 0, "", 0)>>
                    /\ exit_code' = 1
                    /\ pc' = "done"
                    /\ UNCHANGED <<file_idx, all_tutorials_passed>>
               ELSE /\ trace' = Append(trace, Event("banner", 0, 0, "", 0))
                    /\ all_tutorials_passed' = TRUE
                    /\ file_idx' = 1
                    /\ pc' = "file_loop"
                    /\ UNCHANGED exit_code
    /\ UNCHANGED unitVars
    /\ UNCHANGED <<mode, tutorials_dir_exists, files, code_blocks, block_pos,
                   all_passed, passed, temp_dir, fs, proc, ret>>

\* check_tutorial_file up to the loop over the code blocks
CheckTutorialFile ==
    /\ pc = "file_loop"
    /\ code_blocks' = extract_rust_code_blocks(files[CurrentFile])
    /\ IF code_blocks' = <<>>
       THEN /\ trace' = trace \o <<Event("header", CurrentFile, 0, "", 0),
                                   Event("no_blocks", CurrentFile, 0, "", 0)>>
            /\ passed' = TRUE
            /\ pc' = "file_return"
            /\ UNCHANGED <<all_passed, block_pos>>
       ELSE /\ trace' = trace \o <<Event("header", CurrentFile, 0, "", 0),
                                   Event("found", CurrentFile, 0, "", Len(code_blocks'))>>
            /\ all_passed' = TRUE
            /\ block_pos' = 1
            /\ pc' = "block_loop"
            /\ UNCHANGED passed
    /\ UNCHANGED unitVars
    /\ UNCHANGED <<mode, tutorials_dir_exists, files, tutorial_files, file_idx,
                   all_tutorials_passed, temp_dir, fs, proc, ret, exit_code>>

\* with tempfile.TemporaryDirectory() as temp_dir: a new directory under a name
\* that does not exist
EnterSandbox ==
    /\ pc = "block_loop"
    /\ block_pos <= Len(code_blocks)
    /\ \E d \in DirNames :
          /\ ~fs[d].exists
          /\ temp_dir' = d
          /\ fs' = [fs EXCEPT ![d] = [exists |-> TRUE, paths |-> {}, main_rs |-> <<>>]]
    /\ pc' = "build"
    /\ UNCHANGED unitVars
    /\ UNCHANGED <<mode, tutorials_dir_exists, files, tutorial_files, file_idx,
                   code_blocks, block_pos, all_passed, passed, all_tutorials_passed,
                   proc, ret, trace, exit_code>>

\* check_syntax before the try: src/, Cargo.toml, lib.rs, main.rs are written
BuildSandbox ==
    /\ pc = "build"
    /\ fs' = [fs EXCEPT ![temp_dir] = SandboxContent(mode, CurrentCode)]
    /\ pc' = "spawn"
    /\ UNCHANGED unitVars
    /\ UNCHANGED <<mode, tutorials_dir_exists, files, tutorial_files, file_idx,
                   code_blocks, block_pos, all_passed, passed, all_tutorials_passed,
                   temp_dir, proc, ret, trace, exit_code>>

\* check_syntax before the try: mkdir or write_text raises OSError. No handler
\* encloses these statements: the with block removes the directory, the exception
\* leaves check_tutorial_file and main, and the interpreter exits with status 1.
BuildSandboxRaises ==
    /\ pc = "build"
    /\ fs' = [fs EXCEPT ![temp_dir] = Absent]
    /\ temp_dir' = 0
    /\ trace' = Append(trace, Event("traceback", CurrentFile, CurrentIndex, "", 0))
    /\ exit_code' = 1
    /\ pc' = "aborted"
    /\ UNCHANGED unitVars
    /\ UNCHANGED <<mode, tutorials_dir_exists, files, tutorial_files, file_idx,
                   code_blocks, block_pos, all_passed, passed, all_tutorials_passed,
                   proc, ret>>

\* subprocess.run starts cargo check
StartChecker ==
    /\ pc = "spawn"
    /\ trace' = Append(trace, Event("run", CurrentFile, CurrentIndex, "", 0))
    /\ proc' = [NoProc EXCEPT !.state = "running"]
    /\ pc' = "wait"
    /\ UNCHANGED unitVars
    /\ UNCHANGED <<mode, tutorials_dir_exists, files, tutorial_files, file_idx,
                   code_blocks, block_pos, all_passed, passed, all_tutorials_passed,
                   temp_dir, fs, ret, exit_code>>

\* subprocess.run cannot start cargo: the exception is caught by except Exception
StartCheckerFails ==
    /\ pc = "spawn"
    /\ \E e \in StartErrors :
          /\ proc' = [NoProc EXCEPT !.state = "failed_to_start", !.error = e]
          /\ ret' = CheckResult(mode, proc')
    /\ trace' = trace \o <<Event("run", CurrentFile, CurrentIndex, "", 0),
                           Event("verdict", CurrentFile, CurrentIndex, "startfail", 0)>>
    /\ pc' = "report"
    /\ UNCHANGED unitVars
    /\ UNCHANGED <<mode, tutorials_dir_exists, files, tutorial_files, file_idx,
                   code_blocks, block_pos, all_passed, passed, all_tutorials_passed,
                   temp_dir, fs, exit_code>>

\* cargo exits by itself within the timeout
CheckerExits ==
    /\ pc = "wait"
    /\ \E dur \in Durations, rc \in ExitCodes, err \in Stderrs :
          /\ dur <= Timeout(mode)
          /\ proc' = [NoProc EXCEPT !.state = "exited", !.rc = rc, !.dur = dur,
                                    !.stderr = IF rc = 0 THEN <<>> ELSE err]
          /\ ret' = CheckResult(mode, proc')
          /\ trace' = Append(trace, Event("verdict", CurrentFile, CurrentIndex,
                                          IF rc = 0 THEN "zero" ELSE "nonzero", 0))
    /\ pc' = "report"
    /\ UNCHANGED unitVars
    /\ UNCHANGED <<mode, tutorials_dir_exists, files, tutorial_files, file_idx,
                   code_blocks, block_pos, all_passed, passed, all_tutorials_passed,
                   temp_dir, fs, exit_code>>

\* cargo is still running at the timeout: subprocess.run kills it, waits for it
\* and raises TimeoutExpired
CheckerTimesOut ==
    /\ pc = "wait"
    /\ \E dur \in Durations :
          /\ dur > Timeout(mode)
          /\ proc' = [NoProc EXCEPT !.state = "killed", !.dur = dur]
    /\ ret' = CheckResult(mode, proc')
    /\ trace' = Append(trace, Event("verdict", CurrentFile, CurrentIndex, "timeout", 0))
    /\ pc' = "report"
    /\ UNCHANGED unitVars
    /\ UNCHANGED <<mode, tutorials_dir_exists, files, tutorial_files, file_idx,
                   code_blocks, block_pos, all_passed, passed, all_tutorials_passed,
                   temp_dir, fs, exit_code>>

\* variant: the loop over the blocks stops at the first failure
ReportBlock_BreakOnFailure ==
    /\ pc = "report"
    /\ trace' = Append(trace, Event("status", CurrentFile, CurrentIndex,
                                    IF ret.success THEN "OK" ELSE "FAILED", 0))
    /\ all_passed' = (all_passed /\ ret.success)
    /\ block_pos' = IF ret.success THEN block_pos ELSE Len(code_blocks)
    /\ pc' = "cleanup"
    /\ UNCHANGED unitVars
    /\ UNCHANGED <<mode, tutorials_dir_exists, files, tutorial_files, file_idx,
                   code_blocks, passed, all_tutorials_passed,
                   temp_dir, fs, proc, ret, exit_code>>

\* the status line of the block; the diagnostic excerpt and the code preview of a
\* failure are printed with the FAILED line and are not separate events
ReportBlock ==
    /\ pc = "report"
    /\ trace' = Append(trace, Event("status", CurrentFile, CurrentIndex,
                                    IF ret.success THEN "OK" ELSE "FAILED", 0))
    /\ all_passed' = NextAllPassed(all_passed, ret.success)
    /\ pc' = "cleanup"
    /\ UNCHANGED unitVars
    /\ UNCHANGED <<mode, tutorials_dir_exists, files, tutorial_files, file_idx,
                   code_blocks, block_pos, passed, all_tutorials_passed,
                   temp_dir, fs, proc, ret, exit_code>>

\* variant: the directory is made with mkdtemp and never removed
ExitSandbox_Leak ==
    /\ pc = "cleanup"
    /\ temp_dir' = 0
    /\ proc' = NoProc
    /\ block_pos' = block_pos + 1
    /\ pc' = "block_loop"
    /\ UNCHANGED unitVars
    /\ UNCHANGED <<mode, tutorials_dir_exists, files, tutorial_files, file_idx,
                   code_blocks, all_passed, passed, all_tutorials_passed,
                   fs, ret, trace, exit_code>>

\* the end of the with block removes the directory; the loop moves on.  The
\* directory name and the finished child process are not read again.
ExitSandbox ==
    /\ pc = "cleanup"
    /\ fs' = [fs EXCEPT ![temp_dir] = Absent]
    /\ temp_dir' = 0
    /\ proc' = NoProc
    /\ block_pos' = block_pos + 1
    /\ pc' = "block_loop"
    /\ UNCHANGED unitVars
    /\ UNCHANGED <<mode, tutorials_dir_exists, files, tutorial_files, file_idx,
                   code_blocks, all_passed, passed, all_tutorials_passed,
                   ret, trace, exit_code>>

\* return all_passed
FileReturn ==
    /\ pc = "block_loop"
    /\ block_pos > Len(code_blocks)
    /\ passed' = all_passed
    /\ pc' = "file_return"
    /\ UNCHANGED unitVars
    /\ UNCHANGED <<mode, tutorials_dir_exists, files, tutorial_files, file_idx,
                   code_blocks, block_pos, all_passed, all_tutorials_passed,
                   temp_dir, fs, proc, ret, trace, exit_code>>

\* main: passed = check_tutorial_file(...); if not passed: all_tutorials_passed = False
MainLoopStep ==
    /\ pc = "file_return"
    /\ all_tutorials_passed' = NextAllPassed(all_tutorials_passed, passed)
    /\ trace' = Append(trace, Event("returned", CurrentFile, 0,
                                    IF passed THEN "True" ELSE "False", 0))
    /\ IF file_idx < Len(tutorial_files)
       THEN file_idx' = file_idx + 1 /\ pc' = "file_loop"
       ELSE file_idx' = file_idx /\ pc' = "summary"
    /\ UNCHANGED unitVars
    /\ UNCHANGED <<mode, tutorials_dir_exists, files, tutorial_files,
                   code_blocks, block_pos, all_passed, passed,
                   temp_dir, fs, proc, ret, exit_code>>

\* main: the summary and sys.exit
Summary ==
    /\ pc = "summary"
    /\ trace' = Append(trace, Event("summary", 0, 0,
                                    IF all_tutorials_passed THEN "OK" ELSE "FAILED", 0))
    /\ exit_code' = ExitStatus(all_tutorials_passed)
    /\ pc' = "done"
    /\ UNCHANGED unitVars
    /\ UNCHANGED <<mode, tutorials_dir_exists, files, tutorial_files, file_idx,
                   code_blocks, block_pos, all_passed, passed, all_tutorials_passed,
                   temp_dir, fs, proc, ret>>

Next ==
    \/ Main
    \/ CheckTutorialFile
    \/ EnterSandbox
    \/ BuildSandbox
    \/ BuildSandboxRaises
    \/ StartChecker
    \/ StartCheckerFails
    \/ CheckerExits
    \/ CheckerTimesOut
    \/ ReportBlock
    \/ ExitSandbox
    \/ FileReturn
    \/ MainLoopStep
    \/ Summary

Spec == Init /\ [][Next]_vars

-----------------------------------------------------------------------------
(* Unit specifications: one function applied to every text within the bounds *)

DocAtoms == {FENCE, RUST, NL, OTHER_TEXT}

CodeAtoms == {USE_SDK, BRACE, TOKIO_MAIN, ASYNC, FN, SP, MAIN_PARENS, IMPL, STRUCT,
              OTHER_TEXT}

TextsUpTo(atoms, n) == UNION {[1..k -> atoms] : k \in 0..n}

RunIdle ==
    /\ mode = "syntax"
    /\ tutorials_dir_exists = FALSE
    /\ files = <<>>
    /\ tutorial_files = <<>>
    /\ file_idx = 0
    /\ code_blocks = <<>>
    /\ block_pos = 0
    /\ all_passed = TRUE
    /\ passed = TRUE
    /\ all_tutorials_passed = TRUE
    /\ temp_dir = 0
    /\ fs = [d \in DirNames |-> Absent]
    /\ proc = NoProc
    /\ ret = [success |-> FALSE, message |-> <<>>]
    /\ trace = <<>>
    /\ exit_code = -1
    /\ pc = "idle"

\* the matches of the pattern in a document, before the relevance filter
InitExtract ==
    /\ RunIdle
    /\ arg \in TextsUpTo(DocAtoms, MaxDocLen)
    /\ out = <<>>
    /\ upc = "ready"

FindAllCall ==
    /\ upc = "ready"
    /\ out' = FindAll(arg)
    /\ upc' = "returned"
    /\ UNCHANGED arg
    /\ UNCHANGED runVars

NextExtract == FindAllCall

SpecExtract == InitExtract /\ [][NextExtract]_vars

\* make_code_testable of both scripts on the same block
InitHarness ==
    /\ RunIdle
    /\ arg \in TextsUpTo(CodeAtoms, MaxCodeLen)
    /\ out = <<>>
    /\ upc = "ready"

MakeCodeTestableCall ==
    /\ upc = "ready"
    /\ out' = [m \in Modes |-> make_code_testable(m, arg)]
    /\ upc' = "returned"
    /\ UNCHANGED arg
    /\ UNCHANGED runVars

NextHarness == MakeCodeTestableCall

SpecHarness == InitHarness /\ [][NextHarness]_vars

-----------------------------------------------------------------------------
(* C6: extraction against the line-based rule *)

\* content.split("\n")
RECURSIVE SplitLines(_)
SplitLines(s) ==
    IF \E k \in DOMAIN s : s[k] = NL
    THEN LET k == CHOOSE k \in DOMAIN s : s[k] = NL /\ \A h \in 1..(k - 1) : s[h] # NL
         IN  <<SubSeq(s, 1, k - 1)>> \o SplitLines(SubSeq(s, k + 1, Len(s)))
    ELSE <<s>>

\* "\n".join(lines)
RECURSIVE JoinLines(_)
JoinLines(lines) ==
    IF lines = <<>> THEN <<>>
    ELSE IF Len(lines) = 1 THEN lines[1]
    ELSE lines[1] \o <<NL>> \o JoinLines(Tail(lines))

\* a block begins at a line that is only the opener and ends at the next line that
\* is only the closer; an opener with no closer yields nothing
RECURSIVE LineRuleFrom(_, _)
LineRuleFrom(lines, i) ==
    IF i > Len(lines) THEN <<>>
    ELSE IF /\ lines[i] = <<FENCE, RUST>>
            /\ \E j \in (i + 1)..Len(lines) : lines[j] = <<FENCE>>
         THEN LET j == CHOOSE j \in (i + 1)..Len(lines) :
                          /\ lines[j] = <<FENCE>>
                          /\ \A k \in (i + 1)..(j - 1) : lines[k] # <<FENCE>>
              IN  <<JoinLines(SubSeq(lines, i + 1, j - 1))>> \o LineRuleFrom(lines, j + 1)
         ELSE LineRuleFrom(lines, i + 1)

LineRule(content) == LineRuleFrom(SplitLines(content), 1)

\* C6: for every document the blocks found before filtering are exactly those of
\* the line-based rule (opener line, next closer line, the lines between), in order.
C6_LineRule ==
    upc = "returned" => out = LineRule(arg)

-----------------------------------------------------------------------------
(* C7, C9: the harness *)

ENTRY_POINT == <<FN, SP, MAIN_PARENS>>

\* no entry marker and no function, type or impl defining construct
DeclarationOnly(code) ==
    /\ ~Contains(code, <<TOKIO_MAIN>>)
    /\ ~Contains(code, ENTRY_POINT)
    /\ ~Contains(code, <<ASYNC, FN>>)
    /\ ~Contains(code, <<FN, SP>>)
    /\ ~Contains(code, <<IMPL>>)
    /\ ~Contains(code, <<STRUCT>>)

\* C7 as stated: the harness of a declaration-only block has exactly one entry
\* point and contains the original block text verbatim, in both scripts.
C7_OriginalVerbatim ==
    (upc = "returned" /\ DeclarationOnly(arg)) =>
        \A m \in Modes :
            /\ Count(out[m], ENTRY_POINT) = 1
            /\ Contains(out[m], arg)

\* C7 amended: the harness of a declaration-only block has exactly one entry point
\* (one #[tokio::main] attribute, one fn main()); the full-compile harness contains
\* the original text verbatim, the syntax-only harness contains the text with every
\* "use claude_sdk_rs::" rewritten to "use crate::", which is the original text when
\* the block has no such reference.
C7_DeclarationOnlyWrapped ==
    (upc = "returned" /\ DeclarationOnly(arg)) =>
        /\ \A m \in Modes :
              /\ Count(out[m], ENTRY_POINT) = 1
              /\ Count(out[m], <<TOKIO_MAIN>>) = 1
        /\ Contains(out["full"], arg)
        /\ Contains(out["syntax"], Replace(arg, <<USE_SDK>>, <<USE_CRATE>>))
        /\ (~Contains(arg, <<USE_SDK>>) => Contains(out["syntax"], arg))
        /\ (Contains(arg, <<USE_SDK>>) => ~Contains(out["syntax"], arg))

C7_Witness ==
    /\ upc = "returned"
    /\ DeclarationOnly(arg)
    /\ Contains(arg, <<USE_SDK, BRACE>>)
    /\ Contains(out["syntax"], <<USE_CRATE, BRACE>>)
    /\ Contains(out["full"], arg)

\* C9 as stated: both scripts produce the same harness text (hence the same class)
\* for every block.
C9_OriginalSameHarness ==
    upc = "returned" => out["syntax"] = out["full"]

\* C9 amended: both scripts pass the same blocks through as complete programs; for
\* every block with neither "use claude_sdk_rs::" nor "struct " they produce the
\* same harness; only the syntax-only script rewrites the namespace, and only it
\* counts "struct " as a definition, so apart from a block whose only definition
\* marker is "struct " its harness is the full-compile harness of the rewritten text.
C9_SameUpToRewriteAndStruct ==
    upc = "returned" =>
        /\ (out["syntax"] = Replace(arg, <<USE_SDK>>, <<USE_CRATE>>)) <=> (out["full"] = arg)
        /\ (~Contains(arg, <<USE_SDK>>) /\ ~Contains(arg, <<STRUCT>>))
              => out["syntax"] = out["full"]
        /\ (~Contains(arg, <<STRUCT>>) \/ HasDefinitions("full", arg))
              => out["syntax"]
                   = make_code_testable("full", Replace(arg, <<USE_SDK>>, <<USE_CRATE>>))

C9_Witness ==
    /\ upc = "returned"
    /\ Contains(arg, <<IMPL>>)
    /\ ~Contains(arg, <<USE_SDK>>)
    /\ ~Contains(arg, <<STRUCT>>)
    /\ ~IsCompleteProgram(arg)
    /\ out["syntax"] = Wrapped(arg, PRINTLN_FUNCTIONS)
    /\ out["full"] = out["syntax"]

-----------------------------------------------------------------------------
(* Claims about the run *)

EventsOf(kind, f, b) ==
    {k \in DOMAIN trace :
        trace[k].kind = kind /\ trace[k].file = f /\ trace[k].block = b}

KindAt(kind) == {k \in DOMAIN trace : trace[k].kind = kind}

\* the matches of each document the run can meet
MatchesOf == [d \in SampleDocs |-> FindAll(d)]

\* 0-based indexes of the matches of a document that satisfy the relevance filter
RelevantOf ==
    [d \in SampleDocs |->
        {i \in 0..(Len(MatchesOf[d]) - 1) : IsRelevant(MatchesOf[d][i + 1])}]

RelevantIndexes(f) == RelevantOf[files[f]]

\* the checker accepted the block: its invocation ended with exit status zero
BlockPasses(f, i) ==
    \E k \in EventsOf("verdict", f, i) : trace[k].val = "zero"

DocumentPasses(f) == \A i \in RelevantIndexes(f) : BlockPasses(f, i)

RunPasses == \A f \in DOMAIN files : DocumentPasses(f)

Ended == pc \in {"done", "aborted"}

Existing == {d \in DirNames : fs[d].exists}

\* C1 as stated: for every set of documents under an existing root, the empty set
\* included, main ends with exit code 0 if the Run passes and 1 otherwise.
C1_OriginalExitCode ==
    (Ended /\ tutorials_dir_exists) =>
        exit_code = (IF RunPasses THEN 0 ELSE 1)

\* C1 amended: for every non-empty set of documents under an existing root, main
\* ends with exit code 0 if every relevant block of every document passes and with
\* 1 otherwise; with no document under the root main ends with exit code 1.
C1_ExitCode ==
    (Ended /\ tutorials_dir_exists) =>
        exit_code = (IF DOMAIN files # {} /\ RunPasses THEN 0 ELSE 1)

C1_Witness ==
    /\ pc = "done"
    /\ exit_code = 0
    /\ Len(tutorial_files) >= 2
    /\ \E f \in DOMAIN files : RelevantIndexes(f) = {}
    /\ \E f \in DOMAIN files : Cardinality(RelevantIndexes(f)) >= 2

\* C2: once check_tutorial_file has returned for a document, each match that
\* satisfies the relevance filter has had exactly one checker invocation, one
\* verdict and one status line (OK exactly when the checker exited with zero);
\* each other match has had none; the "Found N" line counts the relevant matches
\* only, and the returned result is True exactly when every relevant match passed.
C2_OneOutcomePerRelevantBlock ==
    \A r \in KindAt("returned") :
        LET f == trace[r].file
            rel == RelevantIndexes(f)
            runs == [i \in 0..(Len(MatchesOf[files[f]]) - 1) |-> EventsOf("run", f, i)]
            verdicts == [i \in 0..(Len(MatchesOf[files[f]]) - 1) |-> EventsOf("verdict", f, i)]
            statuses == [i \in 0..(Len(MatchesOf[files[f]]) - 1) |-> EventsOf("status", f, i)]
            zero(i) == \E k \in verdicts[i] : trace[k].val = "zero"
        IN  /\ \A i \in 0..(Len(MatchesOf[files[f]]) - 1) :
                  LET n == IF i \in rel THEN 1 ELSE 0
                  IN  /\ Cardinality(runs[i]) = n
                      /\ Cardinality(verdicts[i]) = n
                      /\ Cardinality(statuses[i]) = n
            /\ \A k \in DOMAIN trace :
                  (trace[k].file = f /\ trace[k].kind \in {"run", "verdict", "status"})
                      => trace[k].block \in rel
            /\ \A i \in rel : \A k \in statuses[i] : (trace[k].val = "OK") <=> zero(i)
            /\ IF rel = {}
               THEN /\ Cardinality(EventsOf("no_blocks", f, 0)) = 1
                    /\ EventsOf("found", f, 0) = {}
               ELSE /\ Cardinality(EventsOf("found", f, 0)) = 1
                    /\ \A k \in EventsOf("found", f, 0) : trace[k].n = Cardinality(rel)
                    /\ EventsOf("no_blocks", f, 0) = {}
            /\ (trace[r].val = "True") <=> (\A i \in rel : zero(i))

C2_Witness ==
    \E r \in KindAt("returned") :
        /\ files[trace[r].file] = ThreeBlockDoc
        /\ Len(MatchesOf[ThreeBlockDoc]) = 3
        /\ RelevantIndexes(trace[r].file) = {0, 2}
        /\ trace[r].val = "False"
        /\ BlockPasses(trace[r].file, 2)

\* C3: at most one sandbox directory exists at any time; it exists only between
\* the entry of the with block and its exit, is empty when created, and none
\* exists between blocks, between documents, or when the run has ended, whether
\* by the summary or by an error that left the with block.
C3_OneSandboxAtATime ==
    /\ Cardinality(Existing) <= 1
    /\ pc \in {"build", "spawn", "wait", "report", "cleanup"} => Existing = {temp_dir}
    /\ pc = "build" => fs[temp_dir] = [exists |-> TRUE, paths |-> {}, main_rs |-> <<>>]
    /\ pc \in {"main", "file_loop", "block_loop", "file_return", "summary"}
          => Existing = {}
    /\ Ended => Existing = {}

C3_Witness ==
    /\ pc = "build"
    /\ Existing = {temp_dir}
    /\ fs[temp_dir].paths = {}
    /\ KindAt("status") # {}
    /\ \E k \in KindAt("verdict") : trace[k].val = "timeout"

\* C4: an unexpected error while building the sandbox of a block is caught for
\* that block and recorded as a failed outcome; the run does not abort, so every
\* run ends with the summary and every relevant block has a status line.
C4_ErrorCaughtPerBlock ==
    /\ pc # "aborted"
    /\ KindAt("traceback") = {}
    /\ Ended /\ tutorials_dir_exists /\ DOMAIN files # {}
          => \A f \in DOMAIN files : \A i \in RelevantIndexes(f) :
                EventsOf("status", f, i) # {}

\* C5: when check_syntax / test_code_block returns, success is True exactly when
\* cargo exited with status zero; a non-zero exit gives False with the captured
\* error stream; a run longer than the timeout (15 s syntax-only, 30 s
\* full-compile) gives False with the fixed timeout message and a killed process;
\* a failure to start gives False with the error's description; no process is
\* left running.
C5_OutcomeFromInvocation ==
    pc = "report" =>
        /\ proc.state \in {"exited", "killed", "failed_to_start"}
        /\ ret.success <=> (proc.state = "exited" /\ proc.rc = 0)
        /\ (proc.state = "exited" /\ proc.rc # 0)
              => ret = [success |-> FALSE, message |-> proc.stderr]
        /\ proc.state # "failed_to_start" =>
              ((proc.state = "killed")
                  <=> (proc.dur > (IF mode = "syntax" THEN 15 ELSE 30)))
        /\ proc.state = "killed" =>
              ret = [success |-> FALSE,
                     message |-> IF mode = "syntax" THEN <<"Syntax check timeout">>
                                 ELSE <<"Compilation timeout">>]
        /\ proc.state = "failed_to_start" =>
              ret = [success |-> FALSE, message |-> <<"Error: ">> \o proc.error]

C5_Witness ==
    /\ pc = "report"
    /\ mode = "syntax"
    /\ proc.state = "killed"
    /\ proc.dur = 20
    /\ ~ret.success

\* the only match of HelperDoc: fn helper() {}
HelperBlock == <<FN, SP, HELPER_BODY>>

HelperFiles == {f \in DOMAIN files : files[f] = HelperDoc}

\* C8 as stated: a document whose only rust block is fn helper() {} has that block
\* checked, and one verification outcome is produced for it.
C8_OriginalHelperChecked ==
    \A f \in HelperFiles :
        EventsOf("returned", f, 0) # {} =>
            /\ Cardinality(EventsOf("run", f, 0)) = 1
            /\ Cardinality(EventsOf("status", f, 0)) = 1

\* C8 amended: the block fn helper() {} is extracted but fails the relevance
\* filter, so it is never checked: no checker invocation and no outcome, the
\* document reports no testable blocks and passes.  make_code_testable, had it
\* been applied, classifies the block as definitions without entry point: its
\* harness is the block followed by the appended entry point.
C8_HelperSkipped ==
    \A f \in HelperFiles :
        /\ MatchesOf[files[f]] = <<HelperBlock>>
        /\ RelevantIndexes(f) = {}
        /\ \A k \in DOMAIN trace :
              trace[k].file = f => trace[k].kind \in {"header", "no_blocks", "returned"}
        /\ EventsOf("header", f, 0) # {} => EventsOf("no_blocks", f, 0) # {}
        /\ \A k \in EventsOf("returned", f, 0) : trace[k].val = "True"
        /\ \A m \in Modes :
              make_code_testable(m, HelperBlock) = Wrapped(HelperBlock, PRINTLN_FUNCTIONS)

C8_Witness ==
    \E f \in HelperFiles :
        /\ pc = "done"
        /\ EventsOf("returned", f, 0) # {}
        /\ EventsOf("no_blocks", f, 0) # {}
        /\ tutorial_files = <<f>>
        /\ exit_code = 0

\* position in the run of block b of file f
Earlier(f1, b1, f2, b2) == f1 < f2 \/ (f1 = f2 /\ b1 < b2)

\* C10: documents are processed in ascending order of their names and the relevant
\* blocks of a document in extraction order; the verdict and then the status line
\* of a block come after its invocation and before the invocation of any later
\* block; a run that ends without an interpreter error has checked every relevant
\* block of every document, whatever failed before, and a run ends early only by
\* an error raised while building a sandbox, never because of a failed block.
C10_SequentialInOrder ==
    LET runs == KindAt("run")
        verdicts == KindAt("verdict")
        statuses == KindAt("status")
        same(a, b) == trace[a].file = trace[b].file /\ trace[a].block = trace[b].block
    IN  /\ \A i, j \in KindAt("header") :
              i < j => trace[i].file < trace[j].file
        /\ \A i \in runs : \A j \in runs :
              i < j =>
                 /\ Earlier(trace[i].file, trace[i].block, trace[j].file, trace[j].block)
                 /\ \E k \in statuses : same(i, k) /\ i < k /\ k < j
        /\ \A k \in statuses :
              \E i \in runs, v \in verdicts :
                 /\ same(i, k) /\ same(v, k)
                 /\ i < v /\ v < k
                 /\ \A h \in runs : h <= i \/ h > k
        /\ (pc = "done" /\ tutorials_dir_exists /\ DOMAIN files # {}) =>
              /\ {trace[k].file : k \in KindAt("header")} = DOMAIN files
              /\ \A f \in DOMAIN files : \A i \in RelevantIndexes(f) :
                    \E k \in statuses : trace[k].file = f /\ trace[k].block = i
        /\ pc = "aborted" =>
              /\ trace[Len(trace)].kind = "traceback"
              /\ \A k \in statuses : ~same(k, Len(trace))

C10_Witness ==
    /\ pc = "done"
    /\ Len(tutorial_files) >= 2
    /\ \E k \in KindAt("status"), j \in KindAt("run"), h \in KindAt("run") :
          /\ trace[k].val = "FAILED"
          /\ trace[k].file = tutorial_files[1]
          /\ k < j /\ trace[j].file = tutorial_files[1]
          /\ j < h /\ trace[h].file = tutorial_files[2]

====
